---- MODULE Spec2Model ----
(***************************************************************************)
(* Model of the completion registry of routes.js: the two in-memory stores *)
(* (taskCompletions, usedTransactionHashes) and the four route handlers.   *)
(*                                                                         *)
(* Every handler body is synchronous JavaScript (no await, no callback),   *)
(* so Node's run-to-completion event loop executes it as one step: each    *)
(* handler is one action.  Requests that are in flight at the same time    *)
(* are handled in an arbitrary order, one whole handler after the other.   *)
(*                                                                         *)
(* A JavaScript string is a sequence of one-character strings, so that     *)
(* toLowerCase and the regular expressions are modelled by what they do.   *)
(***************************************************************************)
EXTENDS Integers, Sequences, FiniteSets, TLC

VARIABLES
  taskCompletions,        \* Map: normalized address -> completion data
  usedTransactionHashes,  \* Set of consumed transaction hashes
  now,                    \* Math.floor(Date.now() / 1000)
  req,                    \* the request handled last, if any since the clock moved (history)
  res,                    \* the response sent for it (history)
  before,                 \* the two stores as the last handler found them (history)
  completedLog,           \* the "Task completed by ..." lines logged so far
  batch,                  \* requests in flight at the same time (concurrency scenario)
  replies,                \* replies[i]: the response to batch[i], once handled
  rejected,               \* the first call rejected for its timestamp or hash (history)
  discarded               \* the first hash supplied by a call that found a record (history)

vars == <<taskCompletions, usedTransactionHashes, now, req, res, before, completedLog,
          batch, replies, rejected, discarded>>

----------------------------------------------------------------------------
(* Bounds of the model and constants of the program                         *)

MaxTicks == 1        \* the clock advances at most this many seconds
NConc == 2           \* number of concurrent calls in the concurrency scenario

T0 == 1715418615     \* the server time in the initial state (the test page's sample)
AddressDigits == 40  \* /^0x[a-fA-F0-9]{40}$/
HashDigits == 64     \* /^0x[a-fA-F0-9]{64}$/
FutureTolerance == 300
MinTimestamp == 1    \* isInt({ min: 1 })
OneYear == 365 * 24 * 60 * 60
OneDay == 24 * 60 * 60

----------------------------------------------------------------------------
(* JavaScript values                                                        *)

\* the value undefined (a missing body field, Map.get of a missing key);
\* no string of the model equals it, its element not being one character
Undefined == <<"undefined">>
EmptyString == <<>>

\* JavaScript truthiness of a string-or-undefined value
Truthy(v) == v # Undefined /\ v # EmptyString

\* v || ""
OrEmpty(v) == IF Truthy(v) THEN v ELSE EmptyString

UpperCase == <<"A", "B", "C", "D", "E", "F", "G", "X">>
LowerCase == <<"a", "b", "c", "d", "e", "f", "g", "x">>

ToLowerChar(c) ==
  IF \E i \in DOMAIN UpperCase : UpperCase[i] = c
  THEN LowerCase[CHOOSE i \in DOMAIN UpperCase : UpperCase[i] = c]
  ELSE c

\* String.prototype.toLowerCase
ToLowerCase(s) == [i \in DOMAIN s |-> ToLowerChar(s[i])]

HexChars == {"0", "1", "2", "3", "4", "5", "6", "7", "8", "9",
             "a", "b", "c", "d", "e", "f", "A", "B", "C", "D", "E", "F"}

\* /^0x[a-fA-F0-9]{n}$/ applied to the string form of v (undefined never matches)
MatchesHex(v, n) ==
  /\ v # Undefined
  /\ Len(v) = n + 2
  /\ v[1] = "0"
  /\ v[2] = "x"
  /\ \A i \in 3..(n + 2) : v[i] \in HexChars

\* Map.has / Map.get / Map.set on a map held as a function of its keys
MapHas(m, k) == k \in DOMAIN m
MapSet(m, k, v) == [x \in (DOMAIN m) \cup {k} |-> IF x = k THEN v ELSE m[x]]
EmptyMap == [x \in {} |-> 0]

----------------------------------------------------------------------------
(* Inputs                                                                    *)

Zeros(n) == [i \in 1..n |-> "0"]

\* a well-formed address whose first digit is c
AddressOf(c) == <<"0", "x", c>> \o Zeros(AddressDigits - 1)
\* a well-formed transaction hash whose first digit is c
HashOf(c) == <<"0", "x", c>> \o Zeros(HashDigits - 1)

WellFormedAddresses == {AddressOf("a"), AddressOf("A"), AddressOf("b")}
MalformedAddresses == {AddressOf("g"),                               \* not hex
                       <<"0", "x", "a">> \o Zeros(AddressDigits - 2)} \* 39 digits
UserAddresses == WellFormedAddresses \cup MalformedAddresses

\* two hashes with the same digits in different letter case
WellFormedHashes == {HashOf("c"), HashOf("C")}
MalformedHash == <<"0", "x", "c">> \o Zeros(HashDigits - 2)  \* 63 digits

\* timestamps that pass isInt({ min: 1 }): 366 days before T0 and 6 minutes
\* after it (never in range), 4 minutes after it (always in range), and the
\* two that cross a bound of the range when the clock advances one second
PositiveTimestamps == {T0 - OneYear - OneDay,
                       T0 - OneYear,
                       T0 + 240,
                       T0 + FutureTolerance + 1,
                       T0 + 360}

\* the bodies POSTed to /complete-task: every well-formed one, and malformed
\* ones failing each validation chain alone and all of them together
WellFormedBodies ==
  {<<a, t, h>> : a \in WellFormedAddresses, t \in PositiveTimestamps,
                 h \in {Undefined} \cup WellFormedHashes}
MalformedBodies ==
  {<<a, T0 + 240, Undefined>> : a \in MalformedAddresses}
  \cup {<<AddressOf("a"), 0, Undefined>>,
        <<AddressOf("a"), T0 + 240, MalformedHash>>,
        <<AddressOf("g"), 0, MalformedHash>>,
        <<AddressOf("g"), T0 + 360, HashOf("c")>>}
Bodies == WellFormedBodies \cup MalformedBodies

----------------------------------------------------------------------------
(* Helper functions of routes.js                                            *)

isValidTimestampStrict(timestamp) ==
  LET oneYearAgo == now - OneYear
  IN  timestamp > oneYearAgo /\ timestamp < now + FutureTolerance

isValidTimestamp(timestamp) ==
  LET oneYearAgo == now - OneYear
  IN  timestamp >= oneYearAgo /\ timestamp <= now + FutureTolerance

createSuccessResponse(timestamp, tx) ==
  [status |-> 1, data |-> [timestamp |-> timestamp, tx |-> OrEmpty(tx)]]

createIncompleteResponseAsError ==
  [status |-> 0, error |-> "Not found", data |-> [timestamp |-> 0, tx |-> EmptyString]]

createIncompleteResponse ==
  [status |-> 0, data |-> [timestamp |-> 0, tx |-> EmptyString]]

createErrorResponse(message) ==
  [status |-> 0, error |-> message, data |-> [timestamp |-> 0, tx |-> EmptyString]]

\* res.status(code).json(body); res.json(body) sends 200
Json(code, body) == [code |-> code, body |-> body]

----------------------------------------------------------------------------
(* Validation middleware: the messages of the failed chains, in order       *)

ChainError(cond, msg) == IF cond THEN <<>> ELSE <<msg>>

validateNothing(userAddress, timestamp, tx) == <<>>

validateTaskCompletion(userAddress, timestamp, tx) ==
     ChainError(MatchesHex(userAddress, AddressDigits), "Invalid Ethereum address format")
  \o ChainError(timestamp >= MinTimestamp, "Timestamp must be a positive integer")
  \o ChainError(tx = Undefined \/ MatchesHex(tx, HashDigits), "Invalid transaction hash format")

validateAddressParam(userAddress) ==
  ChainError(MatchesHex(userAddress, AddressDigits), "Invalid Ethereum address format")

----------------------------------------------------------------------------
(* POST /complete-task                                                      *)

normalizeIdentity(userAddress) == userAddress

\* userAddress.toLowerCase()
normalizedAddressOf(userAddress) == ToLowerCase(userAddress)

duplicateTxNever(tx) == FALSE

duplicateTxIgnoringCase(tx) ==
  Truthy(tx) /\ \E h \in usedTransactionHashes : ToLowerCase(h) = ToLowerCase(tx)

\* tx && usedTransactionHashes.has(tx)
duplicateTx(tx) == Truthy(tx) /\ tx \in usedTransactionHashes

existingCompletionNever(normalizedAddress) == FALSE

\* existingCompletion = taskCompletions.get(normalizedAddress), as a condition
existingCompletion(normalizedAddress) == MapHas(taskCompletions, normalizedAddress)

completionDataServerTime(timestamp, tx) ==
  [timestamp |-> now, tx |-> OrEmpty(tx), completedAt |-> now]

completionData(timestamp, tx) ==
  [timestamp |-> timestamp, tx |-> OrEmpty(tx), completedAt |-> now]

consumeNothing(tx) == usedTransactionHashes

consumeHashAlways(tx) == usedTransactionHashes \cup {OrEmpty(tx)}

\* if (tx) usedTransactionHashes.add(tx)
consumeHash(tx) ==
  IF Truthy(tx) THEN usedTransactionHashes \cup {tx} ELSE usedTransactionHashes

Snapshot == [taskCompletions |-> taskCompletions, used |-> usedTransactionHashes]

\* the handler with the existing-record lookup moved before the two checks
CompleteTaskExistingFirst(userAddress, timestamp, tx) ==
  LET errors == validateTaskCompletion(userAddress, timestamp, tx)
      normalizedAddress == normalizedAddressOf(userAddress)
  IN  /\ req' = [op |-> "complete-task", userAddress |-> userAddress,
                 timestamp |-> timestamp, tx |-> tx, at |-> now]
      /\ before' = Snapshot
      /\ IF errors # <<>> THEN
           /\ res' = Json(400, createErrorResponse(errors[1]))
           /\ UNCHANGED <<taskCompletions, usedTransactionHashes, completedLog>>
         ELSE IF existingCompletion(normalizedAddress) THEN
           /\ res' = Json(200, createSuccessResponse(
                                 taskCompletions[normalizedAddress].timestamp,
                                 taskCompletions[normalizedAddress].tx))
           /\ UNCHANGED <<taskCompletions, usedTransactionHashes, completedLog>>
         ELSE IF ~isValidTimestamp(timestamp) THEN
           /\ res' = Json(400, createErrorResponse("Invalid timestamp"))
           /\ UNCHANGED <<taskCompletions, usedTransactionHashes, completedLog>>
         ELSE IF duplicateTx(tx) THEN
           /\ res' = Json(400, createErrorResponse("Transaction hash already used"))
           /\ UNCHANGED <<taskCompletions, usedTransactionHashes, completedLog>>
         ELSE
           /\ taskCompletions' =
                MapSet(taskCompletions, normalizedAddress, completionData(timestamp, tx))
           /\ usedTransactionHashes' = consumeHash(tx)
           /\ completedLog' = completedLog \cup {<<userAddress, timestamp, tx>>}
           /\ res' = Json(200, createSuccessResponse(timestamp, tx))
      /\ UNCHANGED now

\* the handler consuming the supplied hash also when it finds a record
CompleteTaskConsumingAlways(userAddress, timestamp, tx) ==
  LET errors == validateTaskCompletion(userAddress, timestamp, tx)
      normalizedAddress == normalizedAddressOf(userAddress)
  IN  /\ req' = [op |-> "complete-task", userAddress |-> userAddress,
                 timestamp |-> timestamp, tx |-> tx, at |-> now]
      /\ before' = Snapshot
      /\ IF errors # <<>> THEN
           /\ res' = Json(400, createErrorResponse(errors[1]))
           /\ UNCHANGED <<taskCompletions, usedTransactionHashes, completedLog>>
         ELSE IF ~isValidTimestamp(timestamp) THEN
           /\ res' = Json(400, createErrorResponse("Invalid timestamp"))
           /\ UNCHANGED <<taskCompletions, usedTransactionHashes, completedLog>>
         ELSE IF duplicateTx(tx) THEN
           /\ res' = Json(400, createErrorResponse("Transaction hash already used"))
           /\ UNCHANGED <<taskCompletions, usedTransactionHashes, completedLog>>
         ELSE IF existingCompletion(normalizedAddress) THEN
           /\ res' = Json(200, createSuccessResponse(
                                 taskCompletions[normalizedAddress].timestamp,
                                 taskCompletions[normalizedAddress].tx))
           /\ usedTransactionHashes' = consumeHash(tx)
           /\ UNCHANGED <<taskCompletions, completedLog>>
         ELSE
           /\ taskCompletions' =
                MapSet(taskCompletions, normalizedAddress, completionData(timestamp, tx))
           /\ usedTransactionHashes' = consumeHash(tx)
           /\ completedLog' = completedLog \cup {<<userAddress, timestamp, tx>>}
           /\ res' = Json(200, createSuccessResponse(timestamp, tx))
      /\ UNCHANGED now

CompleteTask(userAddress, timestamp, tx) ==
  LET errors == validateTaskCompletion(userAddress, timestamp, tx)
      normalizedAddress == normalizedAddressOf(userAddress)
  IN  /\ req' = [op |-> "complete-task", userAddress |-> userAddress,
                 timestamp |-> timestamp, tx |-> tx, at |-> now]
      /\ before' = Snapshot
      /\ IF errors # <<>> THEN
           /\ res' = Json(400, createErrorResponse(errors[1]))
           /\ UNCHANGED <<taskCompletions, usedTransactionHashes, completedLog>>
         ELSE IF ~isValidTimestamp(timestamp) THEN
           /\ res' = Json(400, createErrorResponse("Invalid timestamp"))
           /\ UNCHANGED <<taskCompletions, usedTransactionHashes, completedLog>>
         ELSE IF duplicateTx(tx) THEN
           /\ res' = Json(400, createErrorResponse("Transaction hash already used"))
           /\ UNCHANGED <<taskCompletions, usedTransactionHashes, completedLog>>
         ELSE IF existingCompletion(normalizedAddress) THEN
           /\ res' = Json(200, createSuccessResponse(
                                 taskCompletions[normalizedAddress].timestamp,
                                 taskCompletions[normalizedAddress].tx))
           /\ UNCHANGED <<taskCompletions, usedTransactionHashes, completedLog>>
         ELSE
           /\ taskCompletions' =
                MapSet(taskCompletions, normalizedAddress, completionData(timestamp, tx))
           /\ usedTransactionHashes' = consumeHash(tx)
           /\ completedLog' = completedLog \cup {<<userAddress, timestamp, tx>>}
           /\ res' = Json(200, createSuccessResponse(timestamp, tx))
      /\ UNCHANGED now

----------------------------------------------------------------------------
(* GET /task-status/:userAddress                                            *)

statusKeyIdentity(userAddress) == userAddress

\* userAddress.toLowerCase()
statusKey(userAddress) == ToLowerCase(userAddress)

TaskStatus(userAddress) ==
  LET errors == validateAddressParam(userAddress)
      key == statusKey(userAddress)
  IN  /\ req' = [op |-> "task-status", userAddress |-> userAddress, at |-> now]
      /\ before' = Snapshot
      /\ res' = IF errors # <<>> THEN Json(400, createErrorResponse(errors[1]))
                ELSE IF ~MapHas(taskCompletions, key)
                  THEN Json(200, createIncompleteResponse)
                ELSE Json(200, createSuccessResponse(taskCompletions[key].timestamp,
                                                     taskCompletions[key].tx))
      /\ UNCHANGED <<taskCompletions, usedTransactionHashes, completedLog, now>>

----------------------------------------------------------------------------
(* GET /health and GET /stats                                               *)

Health ==
  /\ req' = [op |-> "health", at |-> now]
  /\ before' = Snapshot
  /\ res' = Json(200, [status |-> "healthy",
                       timestamp |-> now,
                       completions |-> Cardinality(DOMAIN taskCompletions),
                       transactions |-> Cardinality(usedTransactionHashes)])
  /\ UNCHANGED <<taskCompletions, usedTransactionHashes, completedLog, now>>

StatsSwapped ==
  /\ req' = [op |-> "stats", at |-> now]
  /\ before' = Snapshot
  /\ res' = Json(200, [totalCompletions |-> Cardinality(usedTransactionHashes),
                       totalTransactions |-> Cardinality(DOMAIN taskCompletions),
                       timestamp |-> now])
  /\ UNCHANGED <<taskCompletions, usedTransactionHashes, completedLog, now>>

Stats ==
  /\ req' = [op |-> "stats", at |-> now]
  /\ before' = Snapshot
  /\ res' = Json(200, [totalCompletions |-> Cardinality(DOMAIN taskCompletions),
                       totalTransactions |-> Cardinality(usedTransactionHashes),
                       timestamp |-> now])
  /\ UNCHANGED <<taskCompletions, usedTransactionHashes, completedLog, now>>

----------------------------------------------------------------------------
(* The clock, and the service under arbitrary sequential traffic            *)

\* Date.now() moves on by a second between two handlers.  The history of the
\* last request is kept only until then: req, res and before always describe
\* a handler that ran at the present value of now.
Tick ==
  /\ now < T0 + MaxTicks
  /\ now' = now + 1
  /\ req' = [op |-> "none"]
  /\ res' = [code |-> 0]
  /\ before' = Snapshot
  /\ UNCHANGED <<taskCompletions, usedTransactionHashes, completedLog, batch, replies,
                 rejected, discarded>>

NoRejection == [error |-> "none"]

Init ==
  /\ taskCompletions = EmptyMap
  /\ usedTransactionHashes = {}
  /\ now = T0
  /\ req = [op |-> "none"]
  /\ res = [code |-> 0]
  /\ before = [taskCompletions |-> EmptyMap, used |-> {}]
  /\ completedLog = {}
  /\ batch = <<>>
  /\ replies = <<>>
  /\ rejected = NoRejection
  /\ discarded = Undefined

PostCompleteTask ==
  \E body \in Bodies :
    CompleteTask(body[1], body[2], body[3])
      /\ UNCHANGED <<batch, replies, rejected, discarded>>

GetTaskStatus ==
  \E userAddress \in UserAddresses :
    TaskStatus(userAddress) /\ UNCHANGED <<batch, replies, rejected, discarded>>

GetHealth == Health /\ UNCHANGED <<batch, replies, rejected, discarded>>

GetStats == Stats /\ UNCHANGED <<batch, replies, rejected, discarded>>

Next == PostCompleteTask \/ GetTaskStatus \/ GetHealth \/ GetStats \/ Tick

Spec == Init /\ [][Next]_vars

----------------------------------------------------------------------------
(* The concurrency scenario: NConc calls of /complete-task for one fresh    *)
(* address, with distinct unused hashes, are in flight together; their      *)
(* handlers run in any order, the clock advancing in between.               *)

NoReply == [code |-> 0]

\* hashes of the calls in flight
ConcHashes == WellFormedHashes \cup {HashOf("d"), HashOf("D")}
ConcTimestamps == {T0 - OneYear, T0 + 240, T0 + FutureTolerance + 1}
ConcAddresses == {AddressOf("a"), AddressOf("A")}

\* another address completed earlier, with a hash of its own
PriorRecord == [timestamp |-> T0 + 240, tx |-> HashOf("e"), completedAt |-> T0]
PriorStores ==
  {[taskCompletions |-> EmptyMap, used |-> {}, log |-> {}],
   [taskCompletions |-> MapSet(EmptyMap, AddressOf("b"), PriorRecord),
    used |-> {HashOf("e")},
    log |-> {<<AddressOf("b"), T0 + 240, HashOf("e")>>}]}

Batches ==
  {b \in [1..NConc -> ConcAddresses \X ConcTimestamps \X ConcHashes] :
     \A i, j \in 1..NConc : i # j => b[i][3] # b[j][3]}

InitConc ==
  /\ \E prior \in PriorStores :
       /\ taskCompletions = prior.taskCompletions
       /\ usedTransactionHashes = prior.used
       /\ before = [taskCompletions |-> prior.taskCompletions, used |-> prior.used]
       /\ completedLog = prior.log
  /\ now = T0
  /\ req = [op |-> "none"]
  /\ res = [code |-> 0]
  /\ batch \in Batches
  /\ replies = [i \in 1..NConc |-> NoReply]
  /\ rejected = NoRejection
  /\ discarded = Undefined

HandleConc ==
  \E i \in DOMAIN batch :
    /\ replies[i] = NoReply
    /\ CompleteTask(batch[i][1], batch[i][2], batch[i][3])
    /\ replies' = [replies EXCEPT ![i] = [code |-> res'.code, body |-> res'.body,
                                          at |-> now]]
    /\ UNCHANGED <<batch, rejected, discarded>>

NextConc == HandleConc \/ Tick

SpecConc == InitConc /\ [][NextConc]_vars

----------------------------------------------------------------------------
(* The service with the history of its first rejection and of the first     *)
(* hash it discarded, under the traffic of two addresses.                   *)

\* address a completes once, with or without a hash; address b calls with
\* timestamps in range at T0 only, always, and after T0 only
HistoryBodies ==
  {<<AddressOf("a"), T0 + 240, h>> : h \in {Undefined, HashOf("c")}}
  \cup {<<AddressOf("b"), t, h>> :
          t \in {T0 - OneYear, T0 + 240, T0 + FutureTolerance + 1},
          h \in {Undefined} \cup WellFormedHashes}

\* Rejections and calls that find a record change no store, so a run stays a
\* run when the earlier ones are left out: any of them can be the first.
PostCompleteTaskHistory ==
  \E body \in HistoryBodies :
    /\ CompleteTask(body[1], body[2], body[3])
    /\ rejected' =
         IF /\ rejected = NoRejection
            /\ res'.code = 400
            /\ res'.body.error \in {"Invalid timestamp", "Transaction hash already used"}
         THEN [error |-> res'.body.error, body |-> body, at |-> now]
         ELSE rejected
    /\ discarded' =
         IF /\ discarded = Undefined
            /\ res'.code = 200
            /\ ToLowerCase(body[1]) \in DOMAIN taskCompletions
         THEN body[3]
         ELSE discarded
    /\ UNCHANGED <<batch, replies>>

NextHistory == PostCompleteTaskHistory \/ GetTaskStatus \/ GetHealth \/ GetStats \/ Tick

SpecHistory == Init /\ [][NextHistory]_vars

----------------------------------------------------------------------------
(* Vocabulary of the properties, stated on the last request and response.   *)
(* The bounds, messages and response shapes are written out here as the     *)
(* specification gives them, not taken from the handlers' definitions.      *)

Registered == req.op = "complete-task"
Queried == req.op = "task-status"

\* the request passed the syntactic validation of the HTTP layer
WellFormedCall ==
  /\ Registered
  /\ MatchesHex(req.userAddress, 40)
  /\ req.timestamp >= 1
  /\ (req.tx = Undefined \/ MatchesHex(req.tx, 64))

\* the normalized address of the last request
Key == ToLowerCase(req.userAddress)

\* the hash of the last request as a record would hold it
SuppliedHash == IF req.tx = Undefined THEN EmptyString ELSE req.tx

Succeeded == res.code = 200 /\ res.body.status = 1
SucceededWith(timestamp, tx) ==
  res = [code |-> 200,
         body |-> [status |-> 1, data |-> [timestamp |-> timestamp, tx |-> tx]]]
FailedWith(message) ==
  res = [code |-> 400,
         body |-> [status |-> 0, error |-> message,
                   data |-> [timestamp |-> 0, tx |-> EmptyString]]]

\* timestamp is within [t - 365 days, t + 300 seconds]
InRangeAt(timestamp, t) ==
  timestamp >= t - 365 * 24 * 60 * 60 /\ timestamp <= t + 300

StoresUntouched ==
  /\ taskCompletions = before.taskCompletions
  /\ usedTransactionHashes = before.used

\* the address of the last request had a record when the handler started
HadRecord == Key \in DOMAIN before.taskCompletions
OldRecord == before.taskCompletions[Key]

----------------------------------------------------------------------------
(* C1: first write wins.  Once a record exists for a normalized address,    *)
(* every later step of the service (register-completion, get-status,        *)
(* health, stats, the passing of time) leaves that address with exactly     *)
(* the same record: records are never deleted, replaced or modified.        *)
C1_FirstWriteWins ==
  [][\A k \in DOMAIN taskCompletions :
       /\ k \in DOMAIN taskCompletions'
       /\ taskCompletions'[k] = taskCompletions[k]]_vars

\* a well-formed, in-range register-completion with another timestamp has
\* been handled for an address that already had a record
C1_Witness ==
  /\ WellFormedCall
  /\ HadRecord
  /\ req.timestamp # OldRecord.timestamp
  /\ Succeeded

----------------------------------------------------------------------------
(* C2: hash uniqueness.  Once hash H is held by the record of address A,    *)
(* a register-completion call (B, timestamp, H) for another address B and   *)
(* any well-formed timestamp fails with "Transaction hash already used",    *)
(* and creates no record for B.                                             *)

\* the last call supplied a hash that another address's record already held
HashOfAnother ==
  /\ WellFormedCall
  /\ req.tx # Undefined
  /\ \E k \in DOMAIN before.taskCompletions :
       k # Key /\ before.taskCompletions[k].tx = req.tx

\* C2 as the claim states it: whatever the timestamp
C2_AnyTimestamp ==
  HashOfAnother =>
    /\ FailedWith("Transaction hash already used")
    /\ StoresUntouched

\* C2 as amended: the well-formed call fails and creates nothing whatever the
\* timestamp; the failure is "Transaction hash already used" when the
\* timestamp is in range at call time, and "Invalid timestamp" when it is not.
C2_HashUniqueness ==
  HashOfAnother =>
    /\ StoresUntouched
    /\ InRangeAt(req.timestamp, req.at) => FailedWith("Transaction hash already used")
    /\ ~InRangeAt(req.timestamp, req.at) => FailedWith("Invalid timestamp")

C2_Witness ==
  /\ HashOfAnother
  /\ InRangeAt(req.timestamp, req.at)
  /\ Key \notin DOMAIN taskCompletions
  /\ FailedWith("Transaction hash already used")

----------------------------------------------------------------------------
(* C3: idempotency.  When the address of a register-completion call already *)
(* has a record (ts1, tx1) and the call supplies ts2 # ts1 and tx2 # tx1,   *)
(* the call returns success carrying ts1/tx1 and leaves the record as it    *)
(* was.                                                                     *)

SecondCall ==
  /\ WellFormedCall
  /\ HadRecord
  /\ req.timestamp # OldRecord.timestamp
  /\ SuppliedHash # OldRecord.tx

ReturnsOldRecord ==
  /\ SucceededWith(OldRecord.timestamp, OldRecord.tx)
  /\ StoresUntouched
  /\ taskCompletions[Key] = OldRecord

\* C3 as the claim states it: for every ts2 # ts1 and tx2 # tx1
C3_AnySecondCall == SecondCall => ReturnsOldRecord

\* C3 as amended: provided the second call is well-formed, ts2 is in range
\* at the time of that call and tx2 is absent or not yet consumed
C3_Idempotency ==
  (/\ SecondCall
   /\ InRangeAt(req.timestamp, req.at)
   /\ req.tx \notin before.used) => ReturnsOldRecord

C3_Witness ==
  /\ SecondCall
  /\ InRangeAt(req.timestamp, req.at)
  /\ req.tx # Undefined
  /\ req.tx \notin before.used
  /\ ReturnsOldRecord

----------------------------------------------------------------------------
(* C4: a register-completion call that succeeded by creating the record,    *)
(* repeated with the same address, timestamp and hash, is a no-op that      *)
(* again returns success with the existing record's timestamp and hash.     *)
C4_RepeatIsNoOp ==
  (/\ Registered
   /\ <<req.userAddress, req.timestamp, req.tx>> \in completedLog
   /\ HadRecord) =>
    /\ SucceededWith(OldRecord.timestamp, OldRecord.tx)
    /\ StoresUntouched

----------------------------------------------------------------------------
(* C5: concurrency.  When NConc register-completion calls for one fresh     *)
(* address, with distinct unused hashes and timestamps in range when        *)
(* handled, have all been handled, in whatever order, they have all         *)
(* returned the same success (timestamp, hash), the address has exactly one *)
(* record, and exactly one of their hashes is consumed.                     *)

AllHandled == \A i \in DOMAIN batch : replies[i] # NoReply
AllInRange == \A i \in DOMAIN batch : InRangeAt(batch[i][2], replies[i].at)
BatchHashes == {batch[i][3] : i \in DOMAIN batch}
BatchKeys == {ToLowerCase(batch[i][1]) : i \in DOMAIN batch}

C5_ConcurrentCalls ==
  (batch # <<>> /\ AllHandled /\ AllInRange) =>
    /\ \A i \in DOMAIN batch :
         /\ replies[i].code = 200
         /\ replies[i].body.status = 1
         /\ replies[i].body = replies[1].body
    /\ \E i \in DOMAIN batch :
         replies[1].body.data = [timestamp |-> batch[i][2], tx |-> batch[i][3]]
    /\ Cardinality({k \in DOMAIN taskCompletions : ToLowerCase(k) \in BatchKeys}) = 1
    /\ Cardinality(usedTransactionHashes \cap BatchHashes) = 1

\* all calls handled in range, under two spellings of the address and with
\* different timestamps, the clock having advanced in between
C5_Witness ==
  /\ batch # <<>>
  /\ AllHandled
  /\ AllInRange
  /\ \E i, j \in DOMAIN batch :
       /\ batch[i][1] # batch[j][1]
       /\ batch[i][2] # batch[j][2]
       /\ replies[i].at # replies[j].at
  /\ \A i \in DOMAIN batch : replies[i].body = replies[1].body

----------------------------------------------------------------------------
(* C6: in every state a request can observe, the consumed-hash set is       *)
(* exactly the set of non-empty hashes held by the completion records.      *)
C6_StoresAgree ==
  usedTransactionHashes =
    {taskCompletions[k].tx : k \in DOMAIN taskCompletions} \ {EmptyString}

\* a reader observes a state holding a record with a hash and one without
C6_Witness ==
  /\ req.op \in {"task-status", "health", "stats"}
  /\ \E k \in DOMAIN taskCompletions : taskCompletions[k].tx # EmptyString
  /\ \E k \in DOMAIN taskCompletions : taskCompletions[k].tx = EmptyString

----------------------------------------------------------------------------
(* C7: no two records of distinct normalized addresses hold the same        *)
(* non-empty transaction hash.                                              *)
C7_HashesUnique ==
  \A k1, k2 \in DOMAIN taskCompletions :
    (k1 # k2 /\ taskCompletions[k1].tx = taskCompletions[k2].tx)
      => taskCompletions[k1].tx = EmptyString

\* two addresses hold hashes, and a call that offered one of them for the
\* other address has just been handled
C7_Witness ==
  /\ HashOfAnother
  /\ InRangeAt(req.timestamp, req.at)
  /\ \E k1, k2 \in DOMAIN taskCompletions :
       /\ k1 # k2
       /\ taskCompletions[k1].tx # EmptyString
       /\ taskCompletions[k2].tx # EmptyString

----------------------------------------------------------------------------
(* C8: case-insensitivity of addresses.  Spellings of an address that       *)
(* differ only in letter case resolve to one record: the map never holds    *)
(* two keys equal up to case; get-status under any spelling returns the     *)
(* record registered under any other; and a register-completion under any   *)
(* spelling that returns success returns that one record.                   *)

\* the keys of the record map that spell the address of the last request
Spellings(m) == {k \in DOMAIN m : ToLowerCase(k) = Key}

OtherSpellings ==
  {line[1] : line \in {l \in completedLog :
                         ToLowerCase(l[1]) = Key /\ l[1] # req.userAddress}}

----------------------------------------------------------------------------
(* C9: timestamp bound.  With now the server time at call time, a           *)
(* well-formed register-completion call fails with "Invalid timestamp"      *)
(* exactly when timestamp < now - 365 days or timestamp > now + 300; both   *)
(* bounds are accepted, and a call in range for a fresh address with an     *)
(* unused hash succeeds with its own timestamp and hash.                    *)
C9_TimestampBound ==
  WellFormedCall =>
    /\ FailedWith("Invalid timestamp")
         <=> (\/ req.timestamp < req.at - 365 * 24 * 60 * 60
              \/ req.timestamp > req.at + 300)
    /\ (/\ req.timestamp >= req.at - 365 * 24 * 60 * 60
        /\ req.timestamp <= req.at + 300
        /\ ~HadRecord
        /\ req.tx \notin before.used)
         => SucceededWith(req.timestamp, SuppliedHash)

\* a call exactly 300 seconds ahead of the server's clock has been accepted
C9_Witness ==
  /\ WellFormedCall
  /\ req.timestamp = req.at + 300
  /\ ~HadRecord
  /\ SucceededWith(req.timestamp, SuppliedHash)

----------------------------------------------------------------------------
(* C10: get-status on a well-formed address returns the incomplete result   *)
(* {status: 0, data: {timestamp: 0, tx: ""}}, with no error field and not   *)
(* as an error, exactly when the normalized address has no record, and      *)
(* {status: 1} with the record's timestamp and hash exactly when it has.    *)
C10_GetStatus ==
  (Queried /\ MatchesHex(req.userAddress, 40)) =>
    /\ (Key \notin DOMAIN taskCompletions)
         <=> res = [code |-> 200,
                    body |-> [status |-> 0,
                              data |-> [timestamp |-> 0, tx |-> EmptyString]]]
    /\ (Key \in DOMAIN taskCompletions) <=> Succeeded
    /\ (Key \in DOMAIN taskCompletions) =>
         SucceededWith(taskCompletions[Key].timestamp, taskCompletions[Key].tx)
    /\ StoresUntouched

\* get-status has answered for an address that has no record
C10_Witness ==
  /\ Queried
  /\ MatchesHex(req.userAddress, 40)
  /\ Key \notin DOMAIN taskCompletions
  /\ "error" \notin DOMAIN res.body
  /\ res.body.status = 0

----------------------------------------------------------------------------
(* C11: rejections for a duplicate hash or an out-of-range timestamp are    *)
(* terminal: a call that failed with "Transaction hash already used" or     *)
(* "Invalid timestamp" fails again whenever it is retried with the same     *)
(* inputs, after any other operations and any passing of time.              *)

\* the last call repeats the inputs of the call rejected first
Retried ==
  /\ Registered
  /\ rejected.error # "none"
  /\ <<req.userAddress, req.timestamp, req.tx>> = rejected.body

FailedAgain ==
  /\ res.code = 400
  /\ res.body.status = 0
  /\ res.body.error \in {"Invalid timestamp", "Transaction hash already used"}
  /\ StoresUntouched

----------------------------------------------------------------------------
(* C12: the duplicate-transaction check runs before the existing-record     *)
(* check.  A call by an address that already has a record, supplying a hash *)
(* held by another address's record, never returns the idempotent success   *)
(* and leaves both stores unchanged; having passed the timestamp check, it  *)
(* fails with "Transaction hash already used".                              *)
C12_DuplicateBeforeExisting ==
  (HashOfAnother /\ HadRecord) =>
    /\ ~Succeeded
    /\ StoresUntouched
    /\ InRangeAt(req.timestamp, req.at) => FailedWith("Transaction hash already used")

\* an address with a record has offered a hash held by another address
C12_Witness ==
  /\ HashOfAnother
  /\ HadRecord
  /\ InRangeAt(req.timestamp, req.at)
  /\ FailedWith("Transaction hash already used")

----------------------------------------------------------------------------
(* C13: every register-completion call that returns a failure leaves the    *)
(* record map and the consumed-hash set as they were; and malformed input   *)
(* is rejected with the message of its first failing validation, whatever   *)
(* the stores hold.                                                         *)

FirstValidationMessage ==
  IF ~MatchesHex(req.userAddress, 40) THEN "Invalid Ethereum address format"
  ELSE IF req.timestamp < 1 THEN "Timestamp must be a positive integer"
  ELSE "Invalid transaction hash format"

C13_FailuresChangeNothing ==
  Registered =>
    /\ res.body.status = 0 => (StoresUntouched /\ res.code = 400)
    /\ ~WellFormedCall => FailedWith(FirstValidationMessage)

\* a malformed call carrying a consumed hash has been rejected as malformed
C13_Witness ==
  /\ Registered
  /\ ~WellFormedCall
  /\ req.tx \in before.used
  /\ FailedWith("Invalid Ethereum address format")

----------------------------------------------------------------------------
(* C14: register-completion applies its checks in the order timestamp       *)
(* range, duplicate hash, existing record.  A well-formed call out of range *)
(* fails with "Invalid timestamp" even when its hash is consumed and its    *)
(* address has a record; in range with a consumed hash it fails with        *)
(* "Transaction hash already used" even when its address has a record; the  *)
(* idempotent success is returned only after both checks passed.            *)
C14_CheckOrder ==
  WellFormedCall =>
    /\ ~InRangeAt(req.timestamp, req.at) =>
         (FailedWith("Invalid timestamp") /\ StoresUntouched)
    /\ (InRangeAt(req.timestamp, req.at) /\ req.tx \in before.used) =>
         (FailedWith("Transaction hash already used") /\ StoresUntouched)
    /\ (HadRecord /\ Succeeded) =>
         (InRangeAt(req.timestamp, req.at) /\ req.tx \notin before.used)

\* out of range, hash consumed, address with a record: "Invalid timestamp"
C14_Witness ==
  /\ WellFormedCall
  /\ ~InRangeAt(req.timestamp, req.at)
  /\ HadRecord
  /\ req.tx \in before.used
  /\ FailedWith("Invalid timestamp")

----------------------------------------------------------------------------
(* C15: every success result (status 1) of register-completion or           *)
(* get-status carries exactly the timestamp and hash of the record stored   *)
(* for the normalized address right after the call; no success is returned  *)
(* for an address without a record.                                         *)
C15_SuccessCarriesRecord ==
  ((Registered \/ Queried) /\ res.body.status = 1) =>
    /\ res.code = 200
    /\ Key \in DOMAIN taskCompletions
    /\ res.body.data = [timestamp |-> taskCompletions[Key].timestamp,
                        tx |-> taskCompletions[Key].tx]

\* the call that created a record has returned it
C15_Witness ==
  /\ Registered
  /\ ~HadRecord
  /\ res.body.status = 1
  /\ req.tx # Undefined
  /\ req.timestamp # req.at

----------------------------------------------------------------------------
(* C16: get-status, health and stats are pure reads: each leaves the record *)
(* map and the consumed-hash set unchanged; health and stats report the     *)
(* number of records and the number of consumed hashes of that state.       *)
C16_PureReads ==
  /\ req.op \in {"task-status", "health", "stats"} => StoresUntouched
  /\ req.op = "health" =>
       /\ res.body.completions = Cardinality(DOMAIN taskCompletions)
       /\ res.body.transactions = Cardinality(usedTransactionHashes)
  /\ req.op = "stats" =>
       /\ res.body.totalCompletions = Cardinality(DOMAIN taskCompletions)
       /\ res.body.totalTransactions = Cardinality(usedTransactionHashes)

\* stats has reported two different counts
C16_Witness ==
  /\ req.op = "stats"
  /\ res.body.totalCompletions = 2
  /\ res.body.totalTransactions = 1

----------------------------------------------------------------------------
(* C17: a well-formed register-completion call without a hash, for a fresh  *)
(* address and a timestamp in range, succeeds, creates a record with the    *)
(* empty hash and leaves the consumed-hash set unchanged, however many      *)
(* other addresses completed without a hash before.                         *)
C17_NoHashNoConflict ==
  (/\ WellFormedCall
   /\ req.tx = Undefined
   /\ ~HadRecord
   /\ InRangeAt(req.timestamp, req.at)) =>
    /\ SucceededWith(req.timestamp, EmptyString)
    /\ DOMAIN taskCompletions = DOMAIN before.taskCompletions \cup {Key}
    /\ taskCompletions[Key].timestamp = req.timestamp
    /\ taskCompletions[Key].tx = EmptyString
    /\ \A k \in DOMAIN before.taskCompletions :
         taskCompletions[k] = before.taskCompletions[k]
    /\ usedTransactionHashes = before.used

\* a second address has completed without a hash
C17_Witness ==
  /\ WellFormedCall
  /\ req.tx = Undefined
  /\ ~HadRecord
  /\ \E k \in DOMAIN before.taskCompletions : before.taskCompletions[k].tx = EmptyString
  /\ SucceededWith(req.timestamp, EmptyString)

----------------------------------------------------------------------------
(* C18: a hash supplied by a register-completion call that finds a record   *)
(* (the idempotent no-op) is discarded, not consumed: the call leaves the   *)
(* consumed-hash set as it was, and a later well-formed call in range by a  *)
(* fresh address with that hash, no record having taken it meanwhile,       *)
(* succeeds with it.                                                        *)

HeldByARecord(h) ==
  \E k \in DOMAIN before.taskCompletions : before.taskCompletions[k].tx = h

C18_DiscardedNotConsumed ==
  /\ (WellFormedCall /\ HadRecord /\ Succeeded) => StoresUntouched
  /\ (discarded # Undefined /\ discarded \in usedTransactionHashes) =>
       \E k \in DOMAIN taskCompletions : taskCompletions[k].tx = discarded
  /\ (/\ WellFormedCall
      /\ discarded # Undefined
      /\ req.tx = discarded
      /\ ~HadRecord
      /\ ~HeldByARecord(req.tx)
      /\ InRangeAt(req.timestamp, req.at)) =>
       /\ SucceededWith(req.timestamp, req.tx)
       /\ req.tx \in usedTransactionHashes

\* a fresh address has completed with the hash discarded earlier
C18_Witness ==
  /\ WellFormedCall
  /\ discarded # Undefined
  /\ req.tx = discarded
  /\ ~HadRecord
  /\ SucceededWith(req.timestamp, req.tx)

----------------------------------------------------------------------------
(* C19: transaction hashes are compared as supplied, without case           *)
(* normalization: after a hash is accepted, a well-formed call in range by  *)
(* a fresh address with the same digits in another letter case is accepted  *)
(* too, and the consumed-hash set holds both.                               *)

\* the consumed hashes that differ from the supplied one in letter case only
CaseVariants ==
  {h \in before.used : h # req.tx /\ ToLowerCase(h) = ToLowerCase(req.tx)}

C19_HashesCaseSensitive ==
  (/\ WellFormedCall
   /\ req.tx # Undefined
   /\ CaseVariants # {}
   /\ req.tx \notin before.used
   /\ ~HadRecord
   /\ InRangeAt(req.timestamp, req.at)) =>
    /\ SucceededWith(req.timestamp, req.tx)
    /\ CaseVariants \cup {req.tx} \subseteq usedTransactionHashes

C19_Witness ==
  /\ WellFormedCall
  /\ req.tx # Undefined
  /\ CaseVariants # {}
  /\ ~HadRecord
  /\ SucceededWith(req.timestamp, req.tx)
  /\ Cardinality(usedTransactionHashes) = 2

====
